---- MODULE Spec2Model ----
(***************************************************************************)
(* Customer churn prediction system: the feature cache and ingestion path, *)
(* the risk classification of predict, the retention-action rule table and *)
(* the execution of retention actions.                                     *)
(*                                                                         *)
(* Numbers: a probability is an integer number of hundredths (92 = 0.92),  *)
(* a predicted_impact is in hundredths (30 = .30), a discount_percent is   *)
(* in hundredths of a percent (2500 = 25%), an estimated_cost is in        *)
(* 1/10000 of a currency unit.  Time is an integer number of seconds.      *)
(***************************************************************************)
EXTENDS Integers, Sequences, FiniteSets, TLC

VARIABLES
    thresholds,     \* CONFIG['retention_actions']['risk_thresholds']
    predictions,    \* the last two results of ModelLoader.predict
    customers,      \* table customers: customer_id -> row, or NoRow
    recommended,    \* the last call of recommend_actions and its result
    actions,        \* table retention_actions: action_id -> row, or NoRow
    callers,        \* the callers of execute_action, each with its own session
    now,            \* datetime.utcnow(), in seconds
    store,          \* the event tables, in commit order
    cache,          \* redis: customer_id -> entry, or NoEntry
    readers,        \* the callers of get_customer_features
    proc,           \* the StreamProcessor handling the message in hand
    consumer,       \* the EventConsumer: position, committed offset, log
    pending0,       \* the actions that were pending before any call
    session,        \* the rows added to the StreamProcessor's session, not committed
    model,          \* the scoring function of the API, or NoModel
    responses,      \* the responses the API has returned, in order
    tasks,          \* the background tasks added and not yet run
    churn_predictions, \* table churn_predictions, in commit order
    api_log,        \* the errors the API has logged
    tables,         \* the event tables with their columns, per customer c1
    computed,       \* the last two results of _compute_features
    computing,      \* the _compute_features call that is between two queries
    delivered,      \* the customer-service events handled, with their outcome
    bus             \* the topic partition and the loop of EventConsumer.consume

riskVars == <<thresholds, predictions>>
recVars == <<customers, recommended>>
execVars == <<actions, callers, pending0>>
cacheVars == <<store, cache, readers, proc, consumer>>
apiVars == <<model, responses, tasks, churn_predictions, api_log>>
featVars == <<tables, computed, computing, delivered>>
restVars == <<session, apiVars, featVars, bus>>
vars == <<thresholds, predictions, customers, recommended, actions, callers,
          now, store, cache, readers, proc, consumer, pending0, session,
          model, responses, tasks, churn_predictions, api_log, tables,
          computed, computing, delivered, bus>>

None == "None"

\* model = None: no scoring function is active.
NoModel == [loaded |-> FALSE, feature_names_in |-> FALSE]

(***************************************************************************)
(* ModelLoader.predict: the risk level of a probability.                   *)
(***************************************************************************)

\* The grid of probabilities and thresholds of the classification check.
PMax == 6

Probabilities == 0..PMax

ThresholdSets ==
    [critical : Probabilities, high : Probabilities, medium : Probabilities]

RiskLevels == {"low", "medium", "high", "critical"}

\* A classification that excludes the boundary (> for >=).
RiskLevelExclusive(proba, th) ==
    IF proba > th.critical THEN "critical"
    ELSE IF proba > th.high THEN "high"
    ELSE IF proba > th.medium THEN "medium"
    ELSE "low"

\* A classification whose high and medium branches carry each other's label.
RiskLevelSwapped(proba, th) ==
    IF proba >= th.critical THEN "critical"
    ELSE IF proba >= th.high THEN "medium"
    ELSE IF proba >= th.medium THEN "high"
    ELSE "low"

RiskLevel(proba, th) ==
    IF proba >= th.critical THEN "critical"
    ELSE IF proba >= th.high THEN "high"
    ELSE IF proba >= th.medium THEN "medium"
    ELSE "low"

\* The order low < medium < high < critical.
Rank(level) ==
    CASE level = "low" -> 0
      [] level = "medium" -> 1
      [] level = "high" -> 2
      [] level = "critical" -> 3

\* predict(model, features): the scoring function is opaque and returns any
\* probability; the result keeps the probability and its risk level.
predict(proba) ==
    /\ predictions' =
         <<[churn_probability |-> proba,
            risk_level |-> RiskLevel(proba, thresholds)]>>
         \o SubSeq(predictions, 1, IF Len(predictions) = 0 THEN 0 ELSE 1)
    /\ UNCHANGED <<thresholds, recVars, execVars, now, cacheVars, restVars>>

(***************************************************************************)
(* ActionRecommender.recommend_actions and its rule table.                 *)
(***************************************************************************)

NoRow == [exists |-> FALSE]

CustomerIds == {"c1", "c2"}

Segments == {"residential", "small_business", "enterprise"}

\* A nullable Float column: <<>> is NULL (None), <<v>> holds the value v.
Null == <<>>
Some(v) == <<v>>
Val(x) == x[1]

MrrValues == {Null, Some(0), Some(100)}
LtvValues == {Null, Some(1000), Some(1500)}

CustomerRows ==
    [exists : {TRUE}, customer_segment : Segments,
     monthly_recurring_revenue : MrrValues, lifetime_value : LtvValues]

\* A test that takes every value that is not NULL for true (is not None).
NotNull(x) == x # Null

\* Python's truth value of a nullable number: None and 0 are false.
Truthy(x) == x # Null /\ Val(x) # 0

Min(a, b) == IF a <= b THEN a ELSE b

service_call_critical ==
    [action_type |-> "service_call", priority |-> "high",
     predicted_impact |-> 25, estimated_cost |-> 50 * 10000,
     offer_details |-> [reason |-> "Critical churn risk detected",
                        escalation |-> TRUE]]

\* A discount that grows with the probability without a cap.
discount_uncapped(customer, churn_prob, cap, factor, months, priority, impact) ==
    [action_type |-> "discount", priority |-> priority,
     predicted_impact |-> impact,
     estimated_cost |->
         Val(customer.monthly_recurring_revenue) * churn_prob * factor * months,
     offer_details |-> [discount_percent |-> churn_prob * factor,
                        duration_months |-> months]]

discount_action(customer, churn_prob, cap, factor, months, priority, impact) ==
    LET discount_pct == Min(cap * 100, churn_prob * factor)
    IN [action_type |-> "discount", priority |-> priority,
        predicted_impact |-> impact,
        estimated_cost |->
            Val(customer.monthly_recurring_revenue) * discount_pct * months,
        offer_details |-> [discount_percent |-> discount_pct,
                           duration_months |-> months]]

loyalty_reward ==
    [action_type |-> "loyalty_reward", priority |-> "medium",
     predicted_impact |-> 15, estimated_cost |-> 100 * 10000,
     offer_details |-> [reward_type |-> "gift_card", amount |-> 100]]

service_call_high ==
    [action_type |-> "service_call", priority |-> "medium",
     predicted_impact |-> 20, estimated_cost |-> 30 * 10000,
     offer_details |-> [reason |-> "High churn risk", escalation |-> FALSE]]

upgrade_offer ==
    [action_type |-> "upgrade", priority |-> "medium",
     predicted_impact |-> 18, estimated_cost |-> 0,
     offer_details |-> [upgrade_type |-> "premium", special_pricing |-> TRUE]]

retention_email ==
    [action_type |-> "custom_offer", priority |-> "low",
     predicted_impact |-> 10, estimated_cost |-> 5 * 10000,
     offer_details |-> [channel |-> "email", personalized |-> TRUE]]

engagement_email ==
    [action_type |-> "custom_offer", priority |-> "low",
     predicted_impact |-> 5, estimated_cost |-> 2 * 10000,
     offer_details |-> [channel |-> "email", type |-> "engagement"]]

get_critical_actions(customer, churn_prob) ==
    <<service_call_critical>>
    \o (IF Truthy(customer.monthly_recurring_revenue)
        THEN <<discount_action(customer, churn_prob, 25, 30, 6, "high", 30)>>
        ELSE <<>>)
    \o (IF Truthy(customer.lifetime_value) /\ Val(customer.lifetime_value) > 1000
        THEN <<loyalty_reward>>
        ELSE <<>>)

get_high_risk_actions(customer, churn_prob) ==
    <<service_call_high>>
    \o (IF Truthy(customer.monthly_recurring_revenue)
        THEN <<discount_action(customer, churn_prob, 15, 20, 3, "high", 25)>>
        ELSE <<>>)
    \o (IF customer.customer_segment \in {"residential", "small_business"}
        THEN <<upgrade_offer>>
        ELSE <<>>)

get_medium_risk_actions(customer, churn_prob) ==
    (IF Truthy(customer.monthly_recurring_revenue)
     THEN <<discount_action(customer, churn_prob, 10, 15, 2, "medium", 15)>>
     ELSE <<>>)
    \o <<retention_email>>

\* A low branch that sends the retention email of the medium level.
low_as_medium(customer) == <<retention_email>>

get_low_risk_actions(customer) == <<engagement_email>>

\* list.sort(key=predicted_impact, reverse=True): a stable sort, highest first.
RECURSIVE InsertByImpact(_, _)
InsertByImpact(sorted, a) ==
    IF sorted = <<>> THEN <<a>>
    ELSE IF Head(sorted).predicted_impact >= a.predicted_impact
         THEN <<Head(sorted)>> \o InsertByImpact(Tail(sorted), a)
         ELSE <<a>> \o sorted

\* A sort that leaves out reverse=True: lowest impact first.
RECURSIVE InsertAscending(_, _)
InsertAscending(sorted, a) ==
    IF sorted = <<>> THEN <<a>>
    ELSE IF Head(sorted).predicted_impact <= a.predicted_impact
         THEN <<Head(sorted)>> \o InsertAscending(Tail(sorted), a)
         ELSE <<a>> \o sorted

RECURSIVE SortAscending(_)
SortAscending(acts) ==
    IF acts = <<>> THEN <<>>
    ELSE InsertAscending(SortAscending(SubSeq(acts, 1, Len(acts) - 1)),
                         acts[Len(acts)])

RECURSIVE SortByImpact(_)
SortByImpact(acts) ==
    IF acts = <<>> THEN <<>>
    ELSE InsertByImpact(SortByImpact(SubSeq(acts, 1, Len(acts) - 1)),
                        acts[Len(acts)])

Candidates(customer, churn_prob, risk_level) ==
    IF risk_level = "critical" THEN get_critical_actions(customer, churn_prob)
    ELSE IF risk_level = "high" THEN get_high_risk_actions(customer, churn_prob)
    ELSE IF risk_level = "medium" THEN get_medium_risk_actions(customer, churn_prob)
    ELSE get_low_risk_actions(customer)

RecommendResult(customer, churn_prob, risk_level) ==
    IF ~customer.exists THEN <<>>
    ELSE LET sorted == SortByImpact(Candidates(customer, churn_prob, risk_level))
         IN SubSeq(sorted, 1, Min(3, Len(sorted)))

ProbSamples == {0, 10, 50, 67, 92, 100}

\* risk_level is any string: one that names no level takes the low branch.
LevelArgs == RiskLevels \cup {"unknown"}

NoCall == [called |-> FALSE]

recommend_actions(customer_id, churn_probability, risk_level) ==
    /\ recommended' =
         [called |-> TRUE, customer_id |-> customer_id,
          churn_probability |-> churn_probability, risk_level |-> risk_level,
          result |-> RecommendResult(customers[customer_id],
                                     churn_probability, risk_level)]
    /\ UNCHANGED <<customers, riskVars, execVars, now, cacheVars, restVars>>

(***************************************************************************)
(* The clock.                                                              *)
(***************************************************************************)

\* The last second of the clock.
MaxTime == 3

NoEntry == [exists |-> FALSE]

\* One second passes; redis drops the keys whose time to live has run out.
Tick ==
    /\ now < MaxTime
    /\ now' = now + 1
    /\ cache' = [c \in DOMAIN cache |->
                    IF cache[c].exists /\ cache[c].expires <= now + 1
                    THEN NoEntry ELSE cache[c]]
    /\ UNCHANGED <<riskVars, recVars, execVars, store, readers, proc, consumer,
                   restVars>>

(***************************************************************************)
(* ActionRecommender.execute_action.  Each caller has a session of its     *)
(* own; the query and the commit are two statements, and other sessions    *)
(* may run between them.                                                   *)
(***************************************************************************)

ActionIds == {"a1", "a2"}

Statuses == {"pending", "executed", "rejected"}

\* The number of concurrent callers of execute_action.
NCallers == 2

Callers == 1..NCallers

IdleCaller ==
    [pc |-> "idle", action_id |-> None, customer_id |-> None,
     result |-> None, log |-> None, late |-> FALSE]

\* query(RetentionAction).filter(action_id ==, customer_id ==).first()
FindAction(action_id, customer_id) ==
    IF actions[action_id].exists /\ actions[action_id].customer_id = customer_id
    THEN actions[action_id]
    ELSE NoRow

\* Some call on the action has already returned True.
ReturnedTrue(action_id) ==
    \E q \in Callers :
        /\ callers[q].pc = "done"
        /\ callers[q].action_id = action_id
        /\ callers[q].result = "True"

\* A check that is missing: every action found is executed.
MayExecuteAlways(action) == TRUE

\* if action.status != 'pending': return False
MayExecute(action) == action.status = "pending"

\* The query and the two early returns of execute_action.
execute_action_query(p, action_id, customer_id) ==
    LET action == FindAction(action_id, customer_id)
        call == [callers[p] EXCEPT !.action_id = action_id,
                                   !.customer_id = customer_id,
                                   !.late = ReturnedTrue(action_id)]
    IN /\ callers[p].pc = "idle"
       /\ callers' = [callers EXCEPT ![p] =
            IF ~action.exists
            THEN [call EXCEPT !.pc = "done", !.result = "False",
                              !.log = "error: Action not found"]
            ELSE IF ~MayExecute(action)
            THEN [call EXCEPT !.pc = "done", !.result = "False",
                              !.log = "warning: Action already executed"]
            ELSE [call EXCEPT !.pc = "checked"]]
       /\ UNCHANGED <<actions, pending0, riskVars, recVars, now, cacheVars,
                      restVars>>

\* action.status = 'executed'; action.executed_at = utcnow(); commit();
\* return True.  The UPDATE names the row by its key alone.
execute_action_commit(p) ==
    /\ callers[p].pc = "checked"
    /\ actions' = [actions EXCEPT ![callers[p].action_id] =
            [@ EXCEPT !.status = "executed", !.executed_at = Some(now)]]
    /\ callers' = [callers EXCEPT ![p] =
            [@ EXCEPT !.pc = "done", !.result = "True",
                      !.log = "info: Executed action"]]
    /\ UNCHANGED <<pending0, riskVars, recVars, now, cacheVars, restVars>>

(***************************************************************************)
(* FeatureStore: _compute_features and the redis cache.                    *)
(***************************************************************************)

\* CONFIG['feature_store']['online_store']['ttl_seconds'], scaled down.
ttl_seconds == 2

\* The rows of a customer in the event tables.
RowsOf(customer_id) ==
    {i \in 1..Len(store) : store[i].customer_id = customer_id}

\* _compute_features(customer_id): {} for an unknown customer, else the
\* aggregates over the rows committed so far.  snap and at record the store
\* version and the time of the computation.
compute_features(customer_id) ==
    [features |-> IF customers[customer_id].exists
                  THEN [empty |-> FALSE,
                        events |-> Cardinality(RowsOf(customer_id))]
                  ELSE [empty |-> TRUE, events |-> 0],
     snap |-> Len(store),
     at |-> now]

\* json.dumps / json.loads of a feature dictionary: the text of a dictionary
\* is never the empty string, so a stored value always counts as a hit.
JsonDumps(vec) == [json |-> vec]
JsonLoads(text) == text.json

\* An entry that outlives the configured time by a second.
SetexOneSecondLonger(value) ==
    [exists |-> TRUE, value |-> value, expires |-> now + ttl_seconds + 1,
     written |-> now]

\* redis_client.setex(key, ttl_seconds, value): the entry and when it expires.
Setex(value) ==
    [exists |-> TRUE, value |-> value, expires |-> now + ttl_seconds,
     written |-> now]

\* redis_client.get(key): None once the key has expired.
RedisGet(customer_id) ==
    IF cache[customer_id].exists /\ now < cache[customer_id].expires
    THEN cache[customer_id]
    ELSE NoEntry

(***************************************************************************)
(* FeatureStore.get_customer_features, one call per reader, in the steps   *)
(* other sessions may run between: the cache read, the computation, the    *)
(* cache write.                                                            *)
(***************************************************************************)

\* Two concurrent callers of get_customer_features.
Readers == {"r1", "r2"}

NoVec == [features |-> [empty |-> TRUE, events |-> 0], snap |-> 0, at |-> 0]

IdleReader ==
    [pc |-> "idle", customer_id |-> None, use_cache |-> FALSE,
     result |-> NoVec, hit |-> FALSE]

\* if use_cache: cached = redis_client.get(...); if cached: return loads(cached)
get_customer_features_read(r, customer_id, use_cache) ==
    LET cached == RedisGet(customer_id)
        call == [IdleReader EXCEPT !.customer_id = customer_id,
                                   !.use_cache = use_cache]
    IN /\ readers[r].pc = "idle"
       /\ readers' = [readers EXCEPT ![r] =
            IF use_cache /\ cached.exists
            THEN [call EXCEPT !.pc = "done", !.hit = TRUE,
                              !.result = JsonLoads(cached.value)]
            ELSE [call EXCEPT !.pc = "compute"]]
       /\ UNCHANGED <<store, cache, proc, consumer, now,
                      riskVars, recVars, execVars, restVars>>

\* features = self._compute_features(customer_id)
get_customer_features_compute(r) ==
    /\ readers[r].pc = "compute"
    /\ readers' = [readers EXCEPT ![r] =
         [@ EXCEPT !.pc = IF readers[r].use_cache THEN "setex" ELSE "done",
                   !.result = compute_features(readers[r].customer_id)]]
    /\ UNCHANGED <<store, cache, proc, consumer, now,
                   riskVars, recVars, execVars, restVars>>

\* redis_client.setex(key, ttl_seconds, dumps(features)); return features
get_customer_features_setex(r) ==
    /\ readers[r].pc = "setex"
    /\ cache' = [cache EXCEPT ![readers[r].customer_id] =
                    Setex(JsonDumps(readers[r].result))]
    /\ readers' = [readers EXCEPT ![r] = [@ EXCEPT !.pc = "done"]]
    /\ UNCHANGED <<store, proc, consumer, now, riskVars, recVars, execVars,
                   restVars>>

\* The caller has its vector and is free to call again.
get_customer_features_return(r) ==
    /\ readers[r].pc = "done"
    /\ readers' = [readers EXCEPT ![r] = IdleReader]
    /\ UNCHANGED <<store, cache, proc, consumer, now,
                   riskVars, recVars, execVars, restVars>>

(***************************************************************************)
(* StreamProcessor.process_event and the four _process_* methods.  A       *)
(* message is the set of fields it carries; its customer_id, when it has   *)
(* one, is that of the customer in the test, c1.                           *)
(***************************************************************************)

Topics ==
    {"customer-service-events", "stb-telemetry-events",
     "web-analytics-events", "billing-events"}

\* The fields the four methods read that the tables declare NOT NULL or
\* the interface lists as required.
FieldsOf(topic) ==
    CASE topic = "customer-service-events" ->
            {"customer_id", "timestamp", "channel", "resolution_status"}
      [] topic = "stb-telemetry-events" ->
            {"customer_id", "device_id", "timestamp", "event_type"}
      [] topic = "web-analytics-events" ->
            {"customer_id", "session_id", "timestamp", "event_name"}
      [] topic = "billing-events" ->
            {"customer_id", "timestamp", "transaction_id", "event_type"}
      [] OTHER -> {"customer_id", "timestamp"}

\* The fields read as event['...']: a missing one raises KeyError.
SubscriptedFields(topic) ==
    CASE topic = "customer-service-events" -> {"customer_id", "timestamp"}
      [] topic = "stb-telemetry-events" ->
            {"device_id", "customer_id", "timestamp"}
      [] topic = "web-analytics-events" -> {"session_id", "timestamp"}
      [] topic = "billing-events" ->
            {"event_type", "customer_id", "timestamp", "transaction_id"}
      [] OTHER -> {}

\* The columns declared nullable=False: a NULL in one fails the commit.
NotNullColumns(topic) ==
    CASE topic = "customer-service-events" ->
            {"customer_id", "timestamp", "channel"}
      [] topic = "stb-telemetry-events" ->
            {"device_id", "customer_id", "timestamp", "event_type"}
      [] topic = "web-analytics-events" ->
            {"session_id", "timestamp", "event_name"}
      [] topic = "billing-events" ->
            {"event_type", "customer_id", "timestamp", "transaction_id"}
      [] OTHER -> {}

\* A message: the fields it has, and whether its timestamp is ISO text.
Messages(topic) ==
    [fields : {FieldsOf(topic)} \cup {FieldsOf(topic) \ {f} : f \in FieldsOf(topic)},
     timestamp_ok : BOOLEAN]

Keys == {None, "c1"}

\* message.get('customer_id')
GetCustomerId(message) ==
    IF "customer_id" \in message.fields THEN "c1" ELSE None

\* A handler that leaves the rows of a failed commit in the session.
KeepPending(pending) == pending

\* Session.rollback(): the rows added and not committed are dropped.
Rollback(pending) == <<>>

\* Session.commit(): the flush fails on a pending row with NULL in a column
\* declared nullable=False, or when the database cannot be reached.
CommitOutcome(pending, db_ok) ==
    IF \E i \in 1..Len(pending) :
          ~(NotNullColumns(pending[i].table) \subseteq pending[i].columns)
    THEN "IntegrityError"
    ELSE IF ~db_ok THEN "OperationalError"
    ELSE "ok"

\* The row the method adds: its table, its customer_id and the columns
\* that are not NULL.
RowOf(topic, message) ==
    [table |-> topic, customer_id |-> GetCustomerId(message),
     columns |-> message.fields]

\* How the _process_* method of the topic ends: the exception it raises
\* (after rollback), or "ok" with the row committed.  The constructor
\* raises before db.add; the commit flushes every row of the session.
ProcessOutcome(topic, message, db_ok) ==
    IF ~(SubscriptedFields(topic) \subseteq message.fields) THEN "KeyError"
    ELSE IF ~message.timestamp_ok THEN "ValueError"
    ELSE CommitOutcome(Append(session, RowOf(topic, message)), db_ok)

IdleProc ==
    [pc |-> "idle", topic |-> None, message |-> None, key |-> None,
     customer_id |-> None, row |-> 0, persisted_at |-> 0, features |-> NoVec]

\* A process_event that lets the exception of a message reach the consumer.
LogEntryRaised(persisted_row, customer_id, cached, error) ==
    [topic |-> proc.topic, message |-> proc.message,
     row |-> persisted_row, persisted_at |-> proc.persisted_at,
     customer_id |-> customer_id, cached |-> cached,
     error |-> error, raised |-> error # None]

\* What became of a message: the row committed for it (0: none) and the
\* time of its commit, the customer whose cache entry was written (cached), the exception that
\* process_event logged, and whether process_event raised to the consumer
\* (never: except Exception catches all).
LogEntry(persisted_row, customer_id, cached, error) ==
    [topic |-> proc.topic, message |-> proc.message,
     row |-> persisted_row, persisted_at |-> proc.persisted_at,
     customer_id |-> customer_id, cached |-> cached,
     error |-> error, raised |-> FALSE]

\* for message in self.consumer: callback(message.topic, message.value,
\* message.key) -- the consumer hands the next message to process_event.
consume(topic, message, key) ==
    /\ proc.pc = "idle"
    /\ proc' = [IdleProc EXCEPT !.pc = "persist", !.topic = topic,
                                !.message = message, !.key = key]
    /\ consumer' = [consumer EXCEPT !.position = @ + 1]
    /\ UNCHANGED <<store, cache, readers, now, riskVars, recVars, execVars,
                   restVars>>

\* try: the _process_* method of the topic (a warning for any other
\* topic); customer_id = message.get('customer_id') or key.  An exception
\* is caught and logged by process_event, which then returns normally.
process_event_persist(db_ok) ==
    LET known == proc.topic \in Topics
        outcome == IF known
                   THEN ProcessOutcome(proc.topic, proc.message, db_ok)
                   ELSE "ok"
        cid == IF GetCustomerId(proc.message) # None
               THEN GetCustomerId(proc.message) ELSE proc.key
        added == IF known /\ outcome \notin {"KeyError", "ValueError"}
                 THEN Append(session, RowOf(proc.topic, proc.message))
                 ELSE session
        row == IF known /\ outcome = "ok" THEN Len(store) + Len(added) ELSE 0
    IN /\ proc.pc = "persist"
       /\ store' = IF row > 0 THEN store \o added ELSE store
       /\ session' = IF ~known THEN session
                     ELSE IF outcome = "ok" THEN <<>>
                     ELSE Rollback(added)
       /\ IF outcome # "ok"
          THEN /\ proc' = IdleProc
               /\ consumer' = [consumer EXCEPT !.log =
                      Append(@, LogEntry(0, cid, FALSE, outcome))]
          ELSE IF cid = None
          THEN /\ proc' = IdleProc
               /\ consumer' = [consumer EXCEPT !.log =
                      Append(@, [LogEntry(row, cid, FALSE, None)
                                    EXCEPT !.persisted_at = now])]
          ELSE /\ proc' = [proc EXCEPT !.pc = "compute", !.customer_id = cid,
                                       !.row = row, !.persisted_at = now]
               /\ UNCHANGED consumer
       /\ UNCHANGED <<cache, readers, now, riskVars, recVars, execVars,
                      apiVars, featVars, bus>>

\* update_customer_features: features = self._compute_features(customer_id).
\* When a query of the computation fails the exception is caught and logged
\* by process_event ("ComputeError" in the log), after the commit.
update_customer_features_compute(query_ok) ==
    /\ proc.pc = "compute"
    /\ IF query_ok
       THEN /\ proc' = [proc EXCEPT !.pc = "setex",
                           !.features = compute_features(proc.customer_id)]
            /\ UNCHANGED consumer
       ELSE /\ proc' = IdleProc
            /\ consumer' = [consumer EXCEPT !.log =
                   Append(@, LogEntry(proc.row, proc.customer_id, FALSE,
                                      "ComputeError"))]
    /\ UNCHANGED <<store, cache, readers, now, riskVars, recVars, execVars,
                   restVars>>

\* update_customer_features: redis_client.setex(...).  When redis cannot be
\* reached the exception is caught and logged by process_event.
update_customer_features_setex(redis_ok) ==
    /\ proc.pc = "setex"
    /\ cache' = IF redis_ok
                THEN [cache EXCEPT ![proc.customer_id] =
                         Setex(JsonDumps(proc.features))]
                ELSE cache
    /\ consumer' = [consumer EXCEPT !.log =
           Append(@, LogEntry(proc.row, proc.customer_id, redis_ok,
                              IF redis_ok THEN None ELSE "ConnectionError"))]
    /\ proc' = IdleProc
    /\ UNCHANGED <<store, readers, now, riskVars, recVars, execVars,
                   restVars>>

\* The store version of the last event of the customer that process_event
\* has handled to the end with its cache step done (0: none yet).
Completed(customer_id) ==
    LET rows == {consumer.log[i].row : i \in
                    {j \in 1..Len(consumer.log) :
                        /\ consumer.log[j].customer_id = customer_id
                        /\ consumer.log[j].row > 0
                        /\ consumer.log[j].cached}}
    IN IF rows = {} THEN 0
       ELSE CHOOSE v \in rows : \A w \in rows : w <= v

\* enable_auto_commit=True: between two messages the consumer commits the
\* offset of every message it has handed out.
auto_commit ==
    /\ proc.pc = "idle"
    /\ consumer.committed < consumer.position
    /\ consumer' = [consumer EXCEPT !.committed = consumer.position]
    /\ UNCHANGED <<store, cache, readers, proc, now,
                   riskVars, recVars, execVars, restVars>>

(***************************************************************************)
(* The API: predict_churn, predict_batch and the background task           *)
(* _save_prediction.  The two handlers are coroutines that never await:    *)
(* each runs to its return before another request is served; a background  *)
(* task runs after the response of its request has been sent.              *)
(* top_risk_factors, a function of the features alone, is left out of the  *)
(* responses and of the audit rows.                                        *)
(***************************************************************************)

\* get_active_model(): a scoring function, which has feature_names_in_ when
\* it was fitted on a frame with column names.
Models == [loaded : {TRUE}, feature_names_in : BOOLEAN]

\* A test of the scoring function that takes None for a function.
AlwaysLoaded(m) == TRUE

\* model is not None
IsLoaded(m) == m.loaded

\* A test that only takes a missing dictionary (None) for not found.
FeaturesIsNone(features) == FALSE

\* not features: true of the empty dictionary.
NotFeatures(features) == features.empty

\* The probabilities the scoring function returns, in hundredths.
ApiProbas == {10, 92}

\* request.prediction_horizon_days (default 30)
HorizonDays == {30}

\* model_version="1.0.0"
model_version == "1.0.0"

\* The request of a batch holds one or two customer ids (of up to 1000).
MaxBatch == 2

BatchRequests ==
    UNION {[1..n -> CustomerIds] : n \in 1..MaxBatch}

\* The number of requests the API serves.
MaxRequests == 2

\* get_customer_features(customer_id) with the cache: whether the read hits.
CacheHit(customer_id) == RedisGet(customer_id).exists

\* get_customer_features(customer_id), run to its return: the features.
CustomerFeatures(customer_id) ==
    IF CacheHit(customer_id)
    THEN JsonLoads(RedisGet(customer_id).value).features
    ELSE compute_features(customer_id).features

\* The cache after get_customer_features has run for each of the ids.
CacheAfterReads(ids) ==
    [c \in DOMAIN cache |->
        IF c \in ids /\ ~CacheHit(c)
        THEN Setex(JsonDumps(compute_features(c)))
        ELSE cache[c]]

\* ModelLoader.predict raises when the frame of an empty feature dictionary
\* has no column and the function names none to fill in (and when there is
\* no function at all).
PredictRaises(m, features) ==
    ~m.loaded \/ (features.empty /\ ~m.feature_names_in)

\* ModelLoader.predict: the probability of the function and its risk level.
PredictResult(proba) ==
    [churn_probability |-> proba,
     risk_level |-> RiskLevel(proba, thresholds)]

\* ChurnPredictionResponse(...)
ChurnPredictionResponse(customer_id, proba) ==
    [customer_id |-> customer_id,
     churn_probability |-> PredictResult(proba).churn_probability,
     risk_level |-> PredictResult(proba).risk_level,
     model_version |-> model_version,
     recommended_actions |->
        RecommendResult(customers[customer_id], proba,
                        PredictResult(proba).risk_level)]

\* What the caller of an endpoint receives: the status, and for 200 the
\* predictions of the body (one for /predict/churn).
Response(endpoint, ids, status, preds) ==
    [endpoint |-> endpoint, customer_ids |-> ids, status |-> status,
     predictions |-> preds, total_processed |-> Len(preds)]

Reverse(seq) == [i \in 1..Len(seq) |-> seq[Len(seq) + 1 - i]]

\* The last two results of predict, the newest first.
Recent(log) == SubSeq(log, 1, Min(2, Len(log)))

\* The call of recommend_actions as the variable recommended records it.
RecommendCall(customer_id, proba) ==
    [called |-> TRUE, customer_id |-> customer_id,
     churn_probability |-> proba,
     risk_level |-> PredictResult(proba).risk_level,
     result |-> RecommendResult(customers[customer_id], proba,
                                PredictResult(proba).risk_level)]

\* background_tasks.add_task(_save_prediction, customer_id, probability,
\* risk_level, horizon, factors).  request numbers the request the task was
\* added for (the model's bookkeeping, not an argument).
SaveTask(customer_id, proba, horizon, request) ==
    [customer_id |-> customer_id,
     churn_probability |-> PredictResult(proba).churn_probability,
     risk_level |-> PredictResult(proba).risk_level,
     prediction_horizon_days |-> horizon,
     request |-> request]

\* POST /predict/churn
predict_churn(customer_id, horizon, proba) ==
    LET features == CustomerFeatures(customer_id)
        request == Len(responses) + 1
        status == IF ~IsLoaded(model) THEN 503
                  ELSE IF NotFeatures(features) THEN 404
                  ELSE IF PredictRaises(model, features) THEN 500
                  ELSE 200
    IN /\ responses' = Append(responses,
            Response("churn", <<customer_id>>, status,
                     IF status = 200
                     THEN <<ChurnPredictionResponse(customer_id, proba)>>
                     ELSE <<>>))
       /\ cache' = IF status = 503 THEN cache
                   ELSE CacheAfterReads({customer_id})
       /\ predictions' = IF status = 200
                         THEN Recent(<<PredictResult(proba)>> \o predictions)
                         ELSE predictions
       /\ recommended' = IF status = 200
                         THEN RecommendCall(customer_id, proba)
                         ELSE recommended
       /\ tasks' = IF status = 200
                   THEN Append(tasks,
                               SaveTask(customer_id, proba, horizon, request))
                   ELSE tasks
       /\ api_log' = IF status = 500
                     THEN Append(api_log, [error |-> "Error predicting churn",
                                           request |-> request])
                     ELSE api_log
       /\ UNCHANGED <<thresholds, customers, execVars, now, store, readers,
                      proc, consumer, session, model, churn_predictions,
                      featVars, bus>>

\* POST /predict/batch.  features_dict has a key for every id of the
\* request, so the loop scores every id in turn until predict raises.
predict_batch(customer_ids, probas) ==
    LET request == Len(responses) + 1
        ids == {customer_ids[i] : i \in 1..Len(customer_ids)}
        raising == {i \in 1..Len(customer_ids) :
                       PredictRaises(model,
                                     CustomerFeatures(customer_ids[i]))}
        scored == IF raising = {} THEN Len(customer_ids)
                  ELSE (CHOOSE i \in raising : \A j \in raising : i <= j) - 1
        preds == [i \in 1..scored |->
                     ChurnPredictionResponse(customer_ids[i],
                                             probas[customer_ids[i]])]
        results == [i \in 1..scored |-> PredictResult(probas[customer_ids[i]])]
        status == IF ~IsLoaded(model) THEN 503
                  ELSE IF raising # {} THEN 500
                  ELSE 200
    IN /\ responses' = Append(responses,
            Response("batch", customer_ids, status,
                     IF status = 200 THEN preds ELSE <<>>))
       /\ cache' = IF status = 503 THEN cache ELSE CacheAfterReads(ids)
       /\ predictions' = IF status = 503 THEN predictions
                         ELSE Recent(Reverse(results) \o predictions)
       /\ recommended' = IF status = 503 \/ scored = 0 THEN recommended
                         ELSE RecommendCall(customer_ids[scored],
                                            probas[customer_ids[scored]])
       /\ api_log' = IF status = 500
                     THEN Append(api_log,
                                 [error |-> "Error in batch prediction",
                                  request |-> request])
                     ELSE api_log
       /\ UNCHANGED <<thresholds, customers, execVars, now, store, readers,
                      proc, consumer, session, model, tasks,
                      churn_predictions, featVars, bus>>

\* A _save_prediction whose failure replaces the response of its request.
SurfaceSaveError(resps, task) ==
    [resps EXCEPT ![task.request] =
        Response(@.endpoint, @.customer_ids, 500, <<>>)]

\* except Exception as e: logger.error(...) -- the response stands.
OnSaveError(resps, task) == resps

\* ChurnPrediction(customer_id=..., ..., model_version="1.0.0")
ChurnPredictionRow(task) ==
    [customer_id |-> task.customer_id,
     churn_probability |-> task.churn_probability,
     risk_level |-> task.risk_level,
     prediction_horizon_days |-> task.prediction_horizon_days,
     model_version |-> model_version,
     request |-> task.request]

\* _save_prediction, the background task: add and commit the row, or log.
save_prediction(i, db_ok) ==
    /\ i \in 1..Len(tasks)
    /\ tasks' = [j \in 1..(Len(tasks) - 1) |->
                    IF j < i THEN tasks[j] ELSE tasks[j + 1]]
    /\ IF db_ok
       THEN /\ churn_predictions' =
                 Append(churn_predictions, ChurnPredictionRow(tasks[i]))
            /\ UNCHANGED <<responses, api_log>>
       ELSE /\ responses' = OnSaveError(responses, tasks[i])
            /\ api_log' = Append(api_log,
                                 [error |-> "Error saving prediction",
                                  request |-> tasks[i].request,
                                  row |-> ChurnPredictionRow(tasks[i])])
            /\ UNCHANGED churn_predictions
    /\ UNCHANGED <<riskVars, recVars, execVars, now, cacheVars, session,
                   model, featVars, bus>>

(***************************************************************************)
(* FeatureStore._compute_features with the columns it reads.  Here time    *)
(* counts days: the windows and the day differences of the code are whole  *)
(* days.  A value of the vector is Some(v); Null stands for None.  A float *)
(* that is a quotient is kept as the pair of its numerator and its         *)
(* denominator, so that no rounding enters the checks.                     *)
(***************************************************************************)

\* x / y as a float
Quot(x, y) == [num |-> x, den |-> y]

RECURSIVE SumSeq(_)
SumSeq(vals) == IF vals = <<>> THEN 0 ELSE Head(vals) + SumSeq(Tail(vals))

\* max(e.timestamp for e in events)
MaxTimestamp(events) ==
    CHOOSE t \in {events[i].timestamp : i \in 1..Len(events)} :
        \A i \in 1..Len(events) : events[i].timestamp <= t

\* An "or" that keeps the left value even when it is None.
OrKeepsNone(x, default) == x

\* x or default, for a nullable number: None and 0 give the default.
OrNum(x, default) == IF Truthy(x) THEN x ELSE Some(default)

\* x or default, for a nullable string: None and '' give the default.
OrStr(x, default) == IF x # Null /\ Val(x) # "" THEN x ELSE Some(default)

\* min(a, b) of the composite scores
Cap(a, b) == Min(a, b)

\* query(Table).filter(customer_id ==, timestamp >= t - days).all()
Window(rows, customer_id, t, days) ==
    LET In(e) == e.customer_id = customer_id /\ e.timestamp >= t - days
    IN SelectSeq(rows, In)

\* [e.column for e in events if e.column is not None]
NotNone(events, column) ==
    LET Has(e) == e[column] # Null
        vals == SelectSeq(events, Has)
    IN [i \in 1..Len(vals) |-> Val(vals[i][column])]

\* sum(e.column or 0 for e in events)
SumOrZero(events, column) ==
    SumSeq([i \in 1..Len(events) |-> Val(OrNum(events[i][column], 0))])

\* sum(values) / len(values) if values else default
Average(values, default) ==
    IF values # <<>> THEN Quot(SumSeq(values), Len(values)) ELSE default

compute_demographic_features(customer, t) ==
    [customer_segment |-> Some(customer.customer_segment),
     age_range |-> OrStr(customer.age_range, "unknown"),
     household_size |-> OrNum(customer.household_size, 0),
     estimated_income |-> OrStr(customer.estimated_income, "unknown"),
     tenure_days |-> IF customer.account_created_date # Null
                     THEN Some(t - Val(customer.account_created_date))
                     ELSE Some(0),
     monthly_recurring_revenue |-> OrNum(customer.monthly_recurring_revenue, 0),
     lifetime_value |-> OrNum(customer.lifetime_value, 0),
     auto_renew |-> IF customer.auto_renew # Null /\ Val(customer.auto_renew)
                    THEN Some(1) ELSE Some(0),
     days_until_contract_end |->
        IF customer.contract_end_date # Null
        THEN Some(Val(customer.contract_end_date) - t)
        ELSE Some(999)]

compute_service_features(customer_id, t) ==
    LET interactions == Window(tables.service, customer_id, t, 30)
        Unresolved(e) == e.resolution_status = Some("unresolved")
    IN IF interactions = <<>>
       THEN [service_calls_30d |-> Some(0),
             avg_sentiment_30d |-> Some(Quot(0, 1)),
             unresolved_calls_30d |-> Some(0),
             avg_call_duration_30d |-> Some(Quot(0, 1)),
             days_since_last_call |-> Some(999)]
       ELSE [service_calls_30d |-> Some(Len(interactions)),
             avg_sentiment_30d |->
                Some(Average(NotNone(interactions, "sentiment_score"),
                             Quot(0, 1))),
             unresolved_calls_30d |->
                Some(Len(SelectSeq(interactions, Unresolved))),
             avg_call_duration_30d |->
                Some(Average(NotNone(interactions, "duration_seconds"),
                             Quot(0, 1))),
             days_since_last_call |-> Some(t - MaxTimestamp(interactions))]

\* sum(e.buffer_events for e in events) raises TypeError on a None.
StbRaises(customer_id, t) ==
    LET events == Window(tables.stb, customer_id, t, 30)
    IN \E i \in 1..Len(events) : events[i].buffer_events = Null

compute_stb_features(customer_id, t) ==
    LET events == Window(tables.stb, customer_id, t, 30)
        IsError(e) == e.event_type = "error"
    IN IF events = <<>>
       THEN [stb_errors_30d |-> Some(0),
             avg_network_quality_30d |-> Some(Quot(100, 1)),
             total_buffer_events_30d |-> Some(0),
             total_viewing_hours_30d |-> Some(Quot(0, 1))]
       ELSE [stb_errors_30d |-> Some(Len(SelectSeq(events, IsError))),
             avg_network_quality_30d |->
                Some(Average(NotNone(events, "network_quality"),
                             Quot(100, 1))),
             total_buffer_events_30d |->
                Some(SumSeq(NotNone(events, "buffer_events"))),
             total_viewing_hours_30d |->
                Some(Quot(SumOrZero(events, "viewing_duration_seconds"),
                          3600))]

compute_web_features(customer_id, t) ==
    LET events == Window(tables.web, customer_id, t, 30)
    IN IF events = <<>>
       THEN [web_sessions_30d |-> Some(0),
             total_engagement_minutes_30d |-> Some(Quot(0, 1)),
             days_since_last_web_activity |-> Some(999)]
       ELSE [web_sessions_30d |->
                Some(Cardinality({events[i].session_id :
                                     i \in 1..Len(events)})),
             total_engagement_minutes_30d |->
                Some(Quot(SumOrZero(events, "engagement_time_msec"), 60000)),
             days_since_last_web_activity |->
                Some(t - MaxTimestamp(events))]

\* order_by(timestamp.desc()) leaves the order of rows with equal
\* timestamps open: events[0] is any of the rows with the latest one.
LatestEvents(events) ==
    {i \in 1..Len(events) : events[i].timestamp = MaxTimestamp(events)}

\* The picks of events[0] among n rows: the first or the last of the ties.
Picks == {"first", "last"}

LatestEvent(events, pick) ==
    LET ties == LatestEvents(events)
    IN IF pick = "first"
       THEN events[CHOOSE i \in ties : \A j \in ties : i <= j]
       ELSE events[CHOOSE i \in ties : \A j \in ties : i >= j]

compute_billing_features(customer_id, t, pick) ==
    LET events == Window(tables.billing, customer_id, t, 90)
        Failed(e) == e.event_type = "payment_failed"
        Dispute(e) == e.event_type = "dispute_opened"
    IN IF events = <<>>
       THEN [payment_failures_90d |-> Some(0),
             disputes_90d |-> Some(0),
             days_overdue |-> Some(0),
             account_balance |-> Some(0)]
       ELSE [payment_failures_90d |-> Some(Len(SelectSeq(events, Failed))),
             disputes_90d |-> Some(Len(SelectSeq(events, Dispute))),
             days_overdue |->
                OrNum(LatestEvent(events, pick).days_overdue, 0),
             account_balance |->
                OrNum(LatestEvent(events, pick).account_balance, 0)]

\* The two scores, which query the four tables once more.
\* engagement_score = (min(seconds, 360000) + min(12000 * sessions, 360000))
\* / 720000; risk_score = (min(18 * unresolved, 90) + min(40 * failures,
\* 120) + min(3 * days_overdue, 90)) / 300.
compute_behavioral_features(customer_id, t, pick) ==
    LET stb == compute_stb_features(customer_id, t)
        web == compute_web_features(customer_id, t)
        service == compute_service_features(customer_id, t)
        billing == compute_billing_features(customer_id, t, pick)
    IN [engagement_score |->
           Some(Quot(Cap(Val(stb.total_viewing_hours_30d).num, 360000)
                     + Cap(12000 * Val(web.web_sessions_30d), 360000),
                     720000)),
        risk_score |->
           Some(Quot(Cap(18 * Val(service.unresolved_calls_30d), 90)
                     + Cap(40 * Val(billing.payment_failures_90d), 120)
                     + Cap(3 * Val(billing.days_overdue), 90),
                     300))]

\* features.update(...) of two dictionaries with different keys
Update(f, g) ==
    [k \in DOMAIN f \cup DOMAIN g |-> IF k \in DOMAIN g THEN g[k] ELSE f[k]]

\* {} -- the dictionary returned for an unknown customer
EmptyVector == [k \in {} |-> Null]

\* _compute_features(customer_id) at time t: it raises, or returns {} for
\* an unknown customer, or returns the vector.  pick and pick_again are the
\* orders the two billing queries return rows of equal timestamp in.
compute_feature_vector(customer_id, t, pick, pick_again) ==
    IF ~customers[customer_id].exists
    THEN [raised |-> FALSE, features |-> EmptyVector]
    ELSE IF StbRaises(customer_id, t)
    THEN [raised |-> TRUE, features |-> EmptyVector]
    ELSE [raised |-> FALSE,
          features |->
             Update(Update(Update(Update(Update(
                 compute_demographic_features(customers[customer_id], t),
                 compute_service_features(customer_id, t)),
                 compute_stb_features(customer_id, t)),
                 compute_web_features(customer_id, t)),
                 compute_billing_features(customer_id, t, pick)),
                 compute_behavioral_features(customer_id, t, pick_again))]

\* A call of _compute_features; computed keeps the last two calls.
compute_features_call(customer_id, pick, pick_again) ==
    /\ computed' =
         Recent(<<[customer_id |-> customer_id, at |-> now,
                   result |-> compute_feature_vector(customer_id, now,
                                                     pick, pick_again)]>>
                \o computed)
    /\ UNCHANGED <<riskVars, recVars, execVars, now, cacheVars, session,
                   apiVars, tables, computing, delivered, bus>>

(***************************************************************************)
(* _compute_features while ingestion commits.  The session of the feature  *)
(* store reads committed rows, each query at its own time: the queries of  *)
(* the base features run first, those of _compute_behavioral_features      *)
(* after, and a commit of the stream processor may fall between the two.   *)
(***************************************************************************)

IdleComputation == [pc |-> "idle"]

\* The base features of a known customer: demographics, service, telemetry,
\* web and billing, each from the rows committed at the time of its query.
base_features(customer_id, t, pick) ==
    Update(Update(Update(Update(
        compute_demographic_features(customers[customer_id], t),
        compute_service_features(customer_id, t)),
        compute_stb_features(customer_id, t)),
        compute_web_features(customer_id, t)),
        compute_billing_features(customer_id, t, pick))

\* _compute_features up to the call of _compute_behavioral_features.  For
\* an unknown customer, and when the telemetry sum raises, the call ends
\* here.
compute_features_begin(customer_id, pick) ==
    /\ computing.pc = "idle"
    /\ IF ~customers[customer_id].exists \/ StbRaises(customer_id, now)
       THEN /\ computed' =
                 Recent(<<[customer_id |-> customer_id, at |-> now,
                           result |-> compute_feature_vector(customer_id, now,
                                                             pick, pick)]>>
                        \o computed)
            /\ UNCHANGED computing
       ELSE /\ computing' = [pc |-> "behavioral", customer_id |-> customer_id,
                             at |-> now,
                             base |-> base_features(customer_id, now, pick)]
            /\ UNCHANGED computed
    /\ UNCHANGED <<riskVars, recVars, execVars, now, cacheVars, session,
                   apiVars, tables, delivered, bus>>

\* features.update(self._compute_behavioral_features(customer_id, now)):
\* the four queries run again, on the rows committed by now.
compute_features_finish(pick_again) ==
    LET c == computing.customer_id
        t == computing.at
    IN /\ computing.pc = "behavioral"
       /\ computed' =
            Recent(<<[customer_id |-> c, at |-> t,
                      result |->
                         IF StbRaises(c, t)
                         THEN [raised |-> TRUE, features |-> EmptyVector]
                         ELSE [raised |-> FALSE,
                               features |->
                                  Update(computing.base,
                                         compute_behavioral_features(
                                             c, t, pick_again))]]>>
                   \o computed)
       /\ computing' = IdleComputation
       /\ UNCHANGED <<riskVars, recVars, execVars, now, cacheVars, session,
                      apiVars, tables, delivered, bus>>

\* The customer-service events on the bus.  interaction_id is absent, a
\* UUID (0) or a text that is no UUID (-1); every event carries its
\* customer_id, timestamp and channel.
ServiceEvents ==
    [interaction_id : {Null, Some(0), Some(-1)}, customer_id : {"c1"},
     timestamp : {60, 100, 105},
     resolution_status : {Some("resolved"), Some("unresolved")}]

\* Column(UUID(as_uuid=True), primary_key=True, default=uuid.uuid4): the
\* key of the row of an event; a default key is a new one.
InteractionId(event) ==
    IF event.interaction_id = Null
    THEN Some(Len(tables.service) + 1)
    ELSE event.interaction_id

\* A primary key without a unique index.
NoPrimaryKey(rows, key) == FALSE

\* primary_key=True: the insert fails when a row has the key already.
PrimaryKeyViolated(rows, key) ==
    \E i \in 1..Len(rows) : rows[i].interaction_id = key

\* CustomerServiceInteraction(interaction_id=event.get('interaction_id'),
\* ..., duration_seconds=event.get('duration_seconds'), ...)
InteractionRow(event) ==
    [interaction_id |-> InteractionId(event),
     customer_id |-> event.customer_id, timestamp |-> event.timestamp,
     sentiment_score |-> Null, duration_seconds |-> Null,
     resolution_status |-> event.resolution_status]

\* db.add(interaction); db.commit(): the exception of the commit, or "ok".
InsertOutcome(event, db_ok) ==
    IF ~db_ok THEN "OperationalError"
    ELSE IF Val(InteractionId(event)) < 0 THEN "DataError"
    ELSE IF PrimaryKeyViolated(tables.service, InteractionId(event))
    THEN "IntegrityError"
    ELSE "ok"

\* _process_customer_service_event(event), as process_event runs it for a
\* delivery of the event: the row is committed, or the session is rolled
\* back and the exception is logged.
process_customer_service_event(event, db_ok) ==
    LET outcome == InsertOutcome(event, db_ok)
    IN /\ tables' = IF outcome = "ok"
                    THEN [tables EXCEPT !.service =
                             Append(@, InteractionRow(event))]
                    ELSE tables
       /\ delivered' = Append(delivered,
                              [event |-> event, outcome |-> outcome])
       /\ UNCHANGED <<riskVars, recVars, execVars, now, cacheVars, session,
                      apiVars, computed, computing, bus>>

(***************************************************************************)
(* EventConsumer.consume: the loop over the messages of the subscribed     *)
(* topics.  The iterator decodes a message before the loop body gets it.   *)
(***************************************************************************)

\* A message on the bus: whether its payload is JSON text in UTF-8, and
\* whether the callback raises an Exception on it.
BusMessages == [decodable : BOOLEAN, callback_raises : BOOLEAN]

\* queue: the messages delivered, in order; next: the offset of the next
\* message of the iterator; handed: the offsets the callback was called
\* with; logged: the offsets whose callback error was logged; closed and
\* cause: whether close() has run and what ended the loop.
IdleBus ==
    [queue |-> <<>>, next |-> 1, handed |-> <<>>, logged |-> <<>>,
     closed |-> FALSE, cause |-> None]

\* A producer appends a message to the topic.
produce(message) ==
    /\ bus' = [bus EXCEPT !.queue = Append(@, message)]
    /\ UNCHANGED <<riskVars, recVars, execVars, now, cacheVars, session,
                   apiVars, featVars>>

\* value_deserializer=lambda m: json.loads(m.decode('utf-8')): the
\* exception of the iterator for a payload that cannot be decoded.
DecodeError(message) == IF message.decodable THEN None ELSE "ValueError"

\* try: callback(message.topic, message.value, message.key)
\* except Exception as e: logger.error(...)  -- and the loop goes on.
callback_guarded(b, message) ==
    [b EXCEPT !.handed = Append(@, b.next),
              !.logged = IF message.callback_raises
                         THEN Append(@, b.next) ELSE @,
              !.next = @ + 1]

\* One turn of "for message in self.consumer": the iterator decodes the
\* next message; an exception of the decoding is no KafkaError, so it
\* leaves consume through finally: self.close().
consume_next ==
    LET message == bus.queue[bus.next]
    IN /\ ~bus.closed
       /\ bus.next <= Len(bus.queue)
       /\ bus' = IF DecodeError(message) # None
                 THEN [bus EXCEPT !.closed = TRUE,
                                  !.cause = DecodeError(message)]
                 ELSE callback_guarded(bus, message)
       /\ UNCHANGED <<riskVars, recVars, execVars, now, cacheVars, session,
                      apiVars, featVars>>

\* consumer_timeout_ms=1000: with no message for a second the iterator
\* stops, the loop ends and finally: self.close() runs.
consume_timeout ==
    /\ ~bus.closed
    /\ bus.next > Len(bus.queue)
    /\ bus' = [bus EXCEPT !.closed = TRUE, !.cause = "StopIteration"]
    /\ UNCHANGED <<riskVars, recVars, execVars, now, cacheVars, session,
                   apiVars, featVars>>

\* except KafkaError as e: logger.error(...); raise; finally: self.close()
consume_kafka_error ==
    /\ ~bus.closed
    /\ bus' = [bus EXCEPT !.closed = TRUE, !.cause = "KafkaError"]
    /\ UNCHANGED <<riskVars, recVars, execVars, now, cacheVars, session,
                   apiVars, featVars>>

\* generate_sample_data: a Customer row is committed for an id that had
\* none.
create_customer(customer_id) ==
    /\ ~customers[customer_id].exists
    /\ customers' = [customers EXCEPT ![customer_id] =
           [exists |-> TRUE, customer_segment |-> "residential",
            monthly_recurring_revenue |-> Some(100),
            lifetime_value |-> Some(1500)]]
    /\ UNCHANGED <<thresholds, predictions, recommended, execVars, now,
                   cacheVars, restVars>>

(***************************************************************************)
(* Specifications.  Each one runs one part of the system and keeps the     *)
(* state of the other parts at rest.                                       *)
(***************************************************************************)

\* The thresholds of the end-to-end examples: .80, .60, .30 on the grid.
RestThresholds == [critical |-> 5, high |-> 4, medium |-> 2]

RiskAtRest == thresholds = RestThresholds /\ predictions = <<>>

RecAtRest ==
    /\ customers = [c \in CustomerIds |->
           IF c = "c1"
           THEN [exists |-> TRUE, customer_segment |-> "residential",
                 monthly_recurring_revenue |-> Some(100),
                 lifetime_value |-> Some(1500)]
           ELSE NoRow]
    /\ recommended = NoCall

ExecAtRest == actions = <<>> /\ callers = <<>> /\ pending0 = {}

CacheAtRest ==
    /\ store = <<>>
    /\ cache = <<>>
    /\ readers = <<>>
    /\ proc = IdleProc
    /\ consumer = [position |-> 0, committed |-> 0, log |-> <<>>]

ApiAtRest ==
    /\ model = NoModel
    /\ responses = <<>>
    /\ tasks = <<>>
    /\ churn_predictions = <<>>
    /\ api_log = <<>>

FeatAtRest ==
    /\ tables = <<>> /\ computed = <<>>
    /\ computing = IdleComputation /\ delivered = <<>>

RestAtRest == session = <<>> /\ ApiAtRest /\ FeatAtRest /\ bus = IdleBus

InitRisk ==
    /\ thresholds \in ThresholdSets
    /\ predictions = <<>>
    /\ RecAtRest /\ ExecAtRest /\ now = 0 /\ CacheAtRest /\ RestAtRest

NextRisk == \E proba \in Probabilities : predict(proba)

SpecRisk == InitRisk /\ [][NextRisk]_vars

InitRec ==
    /\ customers \in [CustomerIds -> CustomerRows \cup {NoRow}]
    /\ customers["c1"].exists /\ ~customers["c2"].exists
    /\ recommended = NoCall
    /\ RiskAtRest /\ ExecAtRest /\ now = 0 /\ CacheAtRest /\ RestAtRest

NextRec ==
    \E c \in CustomerIds, p \in ProbSamples, l \in LevelArgs :
        recommend_actions(c, p, l)

SpecRec == InitRec /\ [][NextRec]_vars

ActionRow(customer_id, status) ==
    [exists |-> TRUE, customer_id |-> customer_id, status |-> status,
     executed_at |-> IF status = "executed" THEN Some(0) ELSE Null]

\* a1 is an action of c1 in any status; a2 is an action of c2 or no row.
InitExec ==
    /\ \E s1 \in Statuses, r2 \in {NoRow, ActionRow("c2", "pending")} :
           actions = [a \in ActionIds |->
                         IF a = "a1" THEN ActionRow("c1", s1) ELSE r2]
    /\ callers = [p \in Callers |-> IdleCaller]
    /\ pending0 = {a \in ActionIds :
                      actions[a].exists /\ actions[a].status = "pending"}
    /\ now = 0
    /\ RiskAtRest /\ RecAtRest /\ CacheAtRest /\ RestAtRest

NextExec ==
    \/ \E p \in Callers, a \in ActionIds, c \in CustomerIds :
           execute_action_query(p, a, c)
    \/ \E p \in Callers : execute_action_commit(p)
    \/ Tick

SpecExec == InitExec /\ [][NextExec]_vars

InitCache ==
    /\ store = <<>>
    /\ cache = [c \in CustomerIds |-> NoEntry]
    /\ readers = [r \in Readers |-> IdleReader]
    /\ proc = IdleProc
    /\ consumer = [position |-> 0, committed |-> 0, log |-> <<>>]
    /\ now = 0
    /\ RiskAtRest /\ RecAtRest /\ ExecAtRest /\ RestAtRest

\* The messages of the cache specification: customer-service events of c1,
\* complete or without their timestamp.
CacheMessages ==
    {m \in Messages("customer-service-events") :
        /\ m.timestamp_ok
        /\ {"customer_id", "channel", "resolution_status"} \subseteq m.fields}

\* The number of messages the consumer is handed while readers run.
MaxCacheMsgs == 1

\* Readers, the stream processor and the clock, interleaved.
Next ==
    \/ \E r \in Readers, u \in BOOLEAN :
           get_customer_features_read(r, "c1", u)
    \/ \E r \in Readers : get_customer_features_compute(r)
    \/ \E r \in Readers : get_customer_features_setex(r)
    \/ \E r \in Readers : get_customer_features_return(r)
    \/ /\ consumer.position < MaxCacheMsgs
       /\ \E m \in CacheMessages : consume("customer-service-events", m, "c1")
    \/ process_event_persist(TRUE)
    \/ update_customer_features_compute(TRUE)
    \/ \E ok \in BOOLEAN : update_customer_features_setex(ok)
    \/ auto_commit
    \/ Tick

Spec == InitCache /\ [][Next]_vars

\* The consumer and the stream processor alone, over every topic and
\* every message with at most one field missing.
\* The number of messages the consumer is handed.
MaxMsgs == 2

NextIngest ==
    \/ /\ consumer.position < MaxMsgs
       /\ \E t \in Topics \cup {"other-events"}, k \in Keys :
              \E m \in Messages(t) : consume(t, m, k)
    \/ \E ok \in BOOLEAN : process_event_persist(ok)
    \/ \E ok \in BOOLEAN : update_customer_features_compute(ok)
    \/ \E ok \in BOOLEAN : update_customer_features_setex(ok)
    \/ auto_commit

SpecIngest == InitCache /\ [][NextIngest]_vars

\* Readers of c2, which has no Customer row at first and gets one while
\* they run.
NextOnboard ==
    \/ \E r \in Readers, u \in BOOLEAN :
           get_customer_features_read(r, "c2", u)
    \/ \E r \in Readers : get_customer_features_compute(r)
    \/ \E r \in Readers : get_customer_features_setex(r)
    \/ \E r \in Readers : get_customer_features_return(r)
    \/ create_customer("c2")
    \/ Tick

SpecOnboard == InitCache /\ [][NextOnboard]_vars

\* The thresholds of the end-to-end example, in hundredths.
ApiThresholds == [critical |-> 80, high |-> 60, medium |-> 30]

\* The API after startup_event: a scoring function was found or not; c1
\* has a Customer row and c2 has none; the cache is empty.
InitApi ==
    /\ model \in Models \cup {NoModel}
    /\ responses = <<>>
    /\ tasks = <<>>
    /\ churn_predictions = <<>>
    /\ api_log = <<>>
    /\ thresholds = ApiThresholds /\ predictions = <<>>
    /\ RecAtRest /\ ExecAtRest /\ FeatAtRest /\ session = <<>>
    /\ bus = IdleBus
    /\ store = <<>>
    /\ cache = [c \in CustomerIds |-> NoEntry]
    /\ readers = [r \in Readers |-> IdleReader]
    /\ proc = IdleProc
    /\ consumer = [position |-> 0, committed |-> 0, log |-> <<>>]
    /\ now = 0

NextApi ==
    \/ /\ Len(responses) < MaxRequests
       /\ \E c \in CustomerIds, h \in HorizonDays, p \in ApiProbas :
              predict_churn(c, h, p)
    \/ /\ Len(responses) < MaxRequests
       /\ \E ids \in BatchRequests, ps \in [CustomerIds -> ApiProbas] :
              predict_batch(ids, ps)
    \/ \E i \in 1..Len(tasks), ok \in BOOLEAN : save_prediction(i, ok)

SpecApi == InitApi /\ [][NextApi]_vars

\* The rows of the four event tables, all of customer c1, with the columns
\* the computation reads.  The computation runs on day 100: day 60 is
\* outside the 30-day window and day 5 outside the 90-day window.
ServiceRows ==
    [customer_id : {"c1"}, timestamp : {60, 100},
     sentiment_score : {Null, Some(-50)},
     duration_seconds : {Null, Some(60)},
     resolution_status : {Null, Some("unresolved")}]

StbRows ==
    [customer_id : {"c1"}, timestamp : {60, 100},
     event_type : {"error", "playback"},
     network_quality : {Null, Some(80)},
     buffer_events : {Null, Some(2)},
     viewing_duration_seconds : {Null, Some(-7200), Some(400000)}]

WebRows ==
    [customer_id : {"c1"}, timestamp : {60, 100}, session_id : {"s1"},
     engagement_time_msec : {Null, Some(60000)}]

BillingRows ==
    [customer_id : {"c1"}, timestamp : {5, 100},
     event_type : {"payment_failed", "invoice"},
     days_overdue : {Null, Some(-3), Some(45)},
     account_balance : {Null, Some(10)}]

\* The sequences of at most n rows.
UpTo(rows, n) == UNION {[1..k -> rows] : k \in 0..n}

\* The Customer rows with the columns of the demographic features.
ProfileRows ==
    [exists : {TRUE}, customer_segment : {"residential"},
     age_range : {Null, Some("25-34")},
     household_size : {Null, Some(3)},
     estimated_income : {Null},
     account_created_date : {Some(10)},
     monthly_recurring_revenue : {Null, Some(100)},
     lifetime_value : {Some(1500)},
     auto_renew : {Null, Some(TRUE), Some(FALSE)},
     contract_end_date : {Null, Some(130)}]

DefaultProfile ==
    [exists |-> TRUE, customer_segment |-> "residential",
     age_range |-> Null, household_size |-> Null, estimated_income |-> Null,
     account_created_date |-> Some(10),
     monthly_recurring_revenue |-> Some(100), lifetime_value |-> Some(1500),
     auto_renew |-> Some(TRUE), contract_end_date |-> Null]

EmptyTables == [service |-> <<>>, stb |-> <<>>, web |-> <<>>, billing |-> <<>>]

\* The snapshots of the feature computation: the profile of c1 varies over
\* an empty history; or its customer-service and billing rows vary; or its
\* telemetry and web rows vary.  c2 has no Customer row.
InitFeatures ==
    /\ \E profile \in ProfileRows, history \in
             {EmptyTables}
             \cup {[EmptyTables EXCEPT !.service = sv, !.billing = bl] :
                      sv \in UpTo(ServiceRows, 1), bl \in UpTo(BillingRows, 2)}
             \cup {[EmptyTables EXCEPT !.stb = st, !.web = wb] :
                      st \in UpTo(StbRows, 1), wb \in UpTo(WebRows, 2)} :
          /\ (history # EmptyTables => profile = DefaultProfile)
          /\ customers = [c \in CustomerIds |->
                             IF c = "c1" THEN profile ELSE NoRow]
          /\ tables = history
    /\ computed = <<>>
    /\ computing = IdleComputation /\ delivered = <<>>
    /\ recommended = NoCall
    /\ now = 100
    /\ RiskAtRest /\ ExecAtRest /\ CacheAtRest /\ ApiAtRest /\ session = <<>>
    /\ bus = IdleBus

NextFeatures ==
    \E c \in CustomerIds, pick \in Picks, pick_again \in Picks :
        compute_features_call(c, pick, pick_again)

SpecFeatures == InitFeatures /\ [][NextFeatures]_vars

\* The number of deliveries of customer-service events.
MaxDeliveries == 2

\* The number of _compute_features calls while events are delivered.
MaxComputations == 2

\* c1 with an empty history; events of c1 are delivered, some of them
\* again, while its features are computed.
InitEvents ==
    /\ customers = [c \in CustomerIds |->
                       IF c = "c1" THEN DefaultProfile ELSE NoRow]
    /\ tables = EmptyTables
    /\ computed = <<>>
    /\ computing = IdleComputation /\ delivered = <<>>
    /\ recommended = NoCall
    /\ now = 100
    /\ RiskAtRest /\ ExecAtRest /\ CacheAtRest /\ ApiAtRest /\ session = <<>>
    /\ bus = IdleBus

NextEvents ==
    \/ /\ Len(delivered) < MaxDeliveries
       /\ \E e \in ServiceEvents, ok \in BOOLEAN :
              process_customer_service_event(e, ok)
    \/ /\ Len(computed) < MaxComputations
       /\ \E pick \in Picks : compute_features_begin("c1", pick)
    \/ \E pick_again \in Picks : compute_features_finish(pick_again)

SpecEvents == InitEvents /\ [][NextEvents]_vars

\* The number of messages produced to the topic.
MaxBusMsgs == 3

InitConsume ==
    /\ bus = IdleBus
    /\ now = 0
    /\ RiskAtRest /\ RecAtRest /\ ExecAtRest /\ CacheAtRest
    /\ session = <<>> /\ ApiAtRest /\ FeatAtRest

NextConsume ==
    \/ /\ Len(bus.queue) < MaxBusMsgs
       /\ \E message \in BusMessages : produce(message)
    \/ consume_next
    \/ consume_timeout
    \/ consume_kafka_error

SpecConsume == InitConsume /\ [][NextConsume]_vars

(***************************************************************************)
(* The feature cache (Spec).                                               *)
(***************************************************************************)

\* The step in which reader r gets a cache hit and returns.
HitStep(r) == readers[r].pc = "idle" /\ readers'[r].pc = "done"

\* A hit returns a vector computed at most ttl_seconds before the read.
AgeWithinTtl ==
    \A r \in Readers :
        HitStep(r) => now - readers'[r].result.at <= ttl_seconds

\* A hit returns a vector written to the cache less than ttl_seconds
\* before the read.
WrittenWithinTtl ==
    \A r \in Readers :
        HitStep(r) => now - cache[readers'[r].customer_id].written < ttl_seconds

\* Every entry of the cache expires ttl_seconds after it was written.
EntriesExpireAtTtl ==
    \A c \in DOMAIN cache :
        cache[c].exists => cache[c].expires = cache[c].written + ttl_seconds

\* A call with the cache enabled returns at its first step exactly when the
\* key is there, and then returns the stored vector and writes nothing.
HitReturnsStored ==
    \A r \in Readers :
        /\ HitStep(r) =>
              LET c == readers'[r].customer_id
              IN /\ readers'[r].use_cache /\ readers'[r].hit
                 /\ cache[c].exists /\ now < cache[c].expires
                 /\ readers'[r].result = cache[c].value.json
                 /\ cache' = cache
        /\ (readers[r].pc = "idle" /\ readers'[r].pc = "compute") =>
              LET c == readers'[r].customer_id
              IN ~readers'[r].use_cache \/ ~cache[c].exists
                 \/ now >= cache[c].expires

\* A miss computes from the store as it is, then stores what it computed
\* and returns it.
MissComputesAndStores ==
    \A r \in Readers :
        /\ (readers[r].pc = "compute" /\ readers'[r].pc # "compute") =>
              /\ readers'[r].result.snap = Len(store)
              /\ readers'[r].result.at = now
              /\ ~readers'[r].hit
              /\ readers'[r].pc = IF readers[r].use_cache THEN "setex" ELSE "done"
        /\ (readers[r].pc = "setex" /\ readers'[r].pc # "setex") =>
              /\ readers'[r].pc = "done"
              /\ readers'[r].result = readers[r].result
              /\ cache'[readers[r].customer_id].value.json = readers[r].result
              /\ cache'[readers[r].customer_id].written = now

C3_NoStaleAfterIngest ==
    [][\A r \in Readers :
          /\ HitStep(r) =>
                readers'[r].result.snap >= Completed(readers'[r].customer_id)
          /\ (readers[r].pc = "compute" /\ readers'[r].pc # "compute") =>
                readers'[r].result.snap >= Completed(readers[r].customer_id)
      ]_vars

\* The events of a customer that were committed and whose cache step
\* failed: the store version and the time of the commit of each.
MissedEvents(customer_id) ==
    {[row |-> consumer.log[i].row,
      persisted_at |-> consumer.log[i].persisted_at] : i \in
        {j \in 1..Len(consumer.log) :
            /\ consumer.log[j].customer_id = customer_id
            /\ consumer.log[j].row > 0
            /\ ~consumer.log[j].cached}}

\* C21: when an event of a customer is committed and its cache step does
\* not run, a read of that customer made more than ttl_seconds after the
\* commit returns no vector computed from a store older than the event.
C21_StaleBoundedByTtl ==
    [][\A r \in Readers :
          HitStep(r) =>
              \A e \in MissedEvents(readers'[r].customer_id) :
                  now > e.persisted_at + ttl_seconds =>
                      readers'[r].result.snap >= e.row]_vars

\* C28: a read of a customer that has a Customer row at the time of the
\* read returns no empty vector, from the cache or from the computation.
C28_NoEmptyForKnownCustomer ==
    [][\A r \in Readers :
          /\ HitStep(r) =>
                (customers[readers'[r].customer_id].exists
                    => ~readers'[r].result.features.empty)
          /\ (readers[r].pc = "compute" /\ readers'[r].pc # "compute") =>
                (customers[readers[r].customer_id].exists
                    => ~readers'[r].result.features.empty)]_vars

(***************************************************************************)
(* Ingestion (SpecIngest).                                                 *)
(***************************************************************************)

\* The required fields of a channel, as the interface lists them.
RequiredFields(topic) ==
    CASE topic = "customer-service-events" ->
            {"customer_id", "timestamp", "channel", "resolution_status"}
      [] topic = "stb-telemetry-events" ->
            {"customer_id", "device_id", "timestamp", "event_type"}
      [] topic = "web-analytics-events" ->
            {"customer_id", "session_id", "timestamp", "event_name"}
      [] topic = "billing-events" ->
            {"customer_id", "timestamp", "transaction_id", "event_type"}

\* The message has every required field of its channel, and its timestamp
\* parses.
WellFormed(topic, message) ==
    RequiredFields(topic) \subseteq message.fields /\ message.timestamp_ok

\* C4: for a message that lacks a required field of its channel, or whose
\* timestamp does not parse, process_event commits no row and writes no
\* cache entry.
C4_InvalidNotPersisted ==
    \A i \in 1..Len(consumer.log) :
        LET e == consumer.log[i]
        IN (e.topic \in Topics /\ ~WellFormed(e.topic, e.message))
              => (e.row = 0 /\ ~e.cached)

PersistErrors == {"KeyError", "ValueError", "IntegrityError", "OperationalError"}

\* C5: when a message fails in validation or in the store write, the
\* failure reaches the consumer and the offset of the message is not
\* committed.
C5_FailureNotAcknowledged ==
    \A i \in 1..Len(consumer.log) :
        consumer.log[i].error \in PersistErrors
            => (consumer.log[i].raised /\ consumer.committed < i)

\* The messages whose _process_* method raised.
FailedEntries ==
    {i \in 1..Len(consumer.log) : consumer.log[i].error \in PersistErrors}

\* The messages for which a row was committed.
PersistedEntries ==
    {i \in 1..Len(consumer.log) : consumer.log[i].row > 0}

\* C14: ingestion is all-or-nothing per event.  A message of one of the
\* four topics that is processed without a persist error has exactly one
\* row of its own in the store, in the table of its topic, and no two
\* messages share a row; a message that failed has none; the store holds
\* no other row (none of a failed message is committed by a later one),
\* and between two messages the session holds no uncommitted row.
C14_AllOrNothing ==
    /\ \A i \in 1..Len(consumer.log) :
          LET e == consumer.log[i]
          IN /\ (e.topic \in Topics /\ e.error \notin PersistErrors)
                   => /\ e.row \in 1..Len(store)
                      /\ store[e.row] = RowOf(e.topic, e.message)
                      /\ store[e.row].table = e.topic
             /\ (e.error \in PersistErrors \/ e.topic \notin Topics)
                   => e.row = 0
    /\ \A i, j \in PersistedEntries :
          i # j => consumer.log[i].row # consumer.log[j].row
    /\ Len(store) = Cardinality(PersistedEntries)
                      + (IF proc.row > 0 THEN 1 ELSE 0)
    /\ proc.pc = "idle" => session = <<>>

\* A message failed at its commit, after db.add, and a later message on the
\* same processor was committed.
C14_Witness ==
    \E i \in FailedEntries, j \in PersistedEntries :
        /\ i < j
        /\ consumer.log[i].error \in {"IntegrityError", "OperationalError"}

\* The failures of the cache step that follows the commit.
CacheErrors == {"ConnectionError", "ComputeError"}

\* The step in which the cache step of the message in hand fails.
CacheStepFails ==
    /\ proc.pc \in {"compute", "setex"}
    /\ Len(consumer'.log) = Len(consumer.log) + 1
    /\ consumer'.log[Len(consumer'.log)].error \in CacheErrors

\* The rows committed so far stay in the store, unchanged.
StoreKeepsRows ==
    /\ Len(store') >= Len(store)
    /\ SubSeq(store', 1, Len(store)) = store

\* C18: when the cache step after a successful persist fails, the row of
\* the message stays committed, the failure is logged and not raised to
\* the consumer, and the processor is idle again, which is all that consume
\* asks for to hand it the next message; no later step removes the row.
C18_CacheFailureOnlyLogged ==
    [][/\ StoreKeepsRows
       /\ CacheStepFails =>
             LET e == consumer'.log[Len(consumer'.log)]
             IN /\ proc.topic \in Topics =>
                      /\ e.row \in 1..Len(store')
                      /\ store'[e.row] = RowOf(proc.topic, proc.message)
                /\ store' = store
                /\ ~e.raised
                /\ proc' = IdleProc]_vars

\* The cache step of a persisted message failed and a later message was
\* persisted by the same processor.
C18_Witness ==
    \E i, j \in PersistedEntries :
        i < j /\ consumer.log[i].error \in CacheErrors

(***************************************************************************)
(* The API (SpecApi).                                                      *)
(***************************************************************************)

\* The step in which a handler returns its response.
HandlesRequest == Len(responses') = Len(responses) + 1

LastResponse(resps) == resps[Len(resps)]

\* C11: when no scoring function is active, a single and a batch request
\* both end with status 503 and no prediction, and the handler has read no
\* features into the cache, scored nothing, recommended nothing and added
\* no audit task or row.
C11_NoModelUnavailable ==
    [][(HandlesRequest /\ model = NoModel) =>
          /\ LastResponse(responses').status = 503
          /\ LastResponse(responses').predictions = <<>>
          /\ cache' = cache
          /\ predictions' = predictions
          /\ recommended' = recommended
          /\ tasks' = tasks
          /\ churn_predictions' = churn_predictions]_vars

\* Without a scoring function a single and a batch request were answered.
C11_Witness ==
    /\ model = NoModel
    /\ \E i, j \in 1..Len(responses) :
          /\ responses[i].endpoint = "churn" /\ responses[i].status = 503
          /\ responses[j].endpoint = "batch" /\ responses[j].status = 503

\* The positions of a batch request whose customer has a Customer row.
Resolvable(customer_ids) ==
    {i \in 1..Len(customer_ids) : customers[customer_ids[i]].exists}

\* C12: a batch request served with a scoring function succeeds whatever
\* ids it names, its response has no prediction for an id without a
\* Customer row, and total_processed is the number of ids with one.
C12_BatchSkipsUnknown ==
    \A k \in 1..Len(responses) :
        LET r == responses[k]
        IN (r.endpoint = "batch" /\ model.loaded) =>
              /\ r.status = 200
              /\ \A i \in 1..Len(r.predictions) :
                    customers[r.predictions[i].customer_id].exists
              /\ r.total_processed = Cardinality(Resolvable(r.customer_ids))

\* C13: a single request for an id without a Customer row, served with a
\* scoring function, ends with status 404 and no prediction; predict is
\* not called and no audit task is added.
C13_UnknownCustomerNotFound ==
    [][(/\ HandlesRequest
        /\ model.loaded
        /\ LastResponse(responses').endpoint = "churn"
        /\ ~customers[LastResponse(responses').customer_ids[1]].exists) =>
          /\ LastResponse(responses').status = 404
          /\ LastResponse(responses').predictions = <<>>
          /\ predictions' = predictions
          /\ recommended' = recommended
          /\ tasks' = tasks
          /\ churn_predictions' = churn_predictions]_vars

\* A single request for c2, which has no row, was answered with 404 by an
\* API that has a scoring function.
C13_Witness ==
    /\ model.loaded
    /\ \E k \in 1..Len(responses) :
          /\ responses[k].endpoint = "churn"
          /\ responses[k].customer_ids = <<"c2">>
          /\ responses[k].status = 404

\* The step in which a background task runs.
SaveStep == Len(tasks') = Len(tasks) - 1

\* C19: the audit write of a prediction runs after the response of its
\* request was returned and leaves every response as it was returned,
\* whether the write succeeds or fails; a failure adds a line to the log
\* and no row.
C19_AuditFailureIsolated ==
    [][SaveStep =>
          /\ responses' = responses
          /\ \A i \in 1..Len(tasks) :
                /\ tasks[i].request \in 1..Len(responses)
                /\ responses[tasks[i].request].status = 200
          /\ \/ /\ Len(churn_predictions') = Len(churn_predictions) + 1
                /\ api_log' = api_log
             \/ /\ churn_predictions' = churn_predictions
                /\ Len(api_log') = Len(api_log) + 1
                /\ api_log'[Len(api_log')].error = "Error saving prediction"]_vars

\* The audit write of a returned prediction has failed.
C19_Witness ==
    \E i \in 1..Len(api_log) :
        /\ api_log[i].error = "Error saving prediction"
        /\ responses[api_log[i].request].status = 200
        /\ Len(responses[api_log[i].request].predictions) = 1

\* The audit record of a prediction of request k: the task, the row or the
\* logged failure carries the fields of the response.
Mirrors(a, k, p) ==
    /\ a.request = k
    /\ a.customer_id = p.customer_id
    /\ a.churn_probability = p.churn_probability
    /\ a.risk_level = p.risk_level

\* C20: every prediction returned, by /predict/churn or in a batch, has an
\* audit write of its own fields and model_version: pending as a task,
\* committed as a row, or attempted and logged as failed.
C20_EveryDecisionAudited ==
    \A k \in 1..Len(responses) :
        \A n \in 1..Len(responses[k].predictions) :
            LET p == responses[k].predictions[n]
            IN \/ \E i \in 1..Len(tasks) : Mirrors(tasks[i], k, p)
               \/ \E i \in 1..Len(churn_predictions) :
                     /\ Mirrors(churn_predictions[i], k, p)
                     /\ churn_predictions[i].model_version = p.model_version
               \/ \E i \in 1..Len(api_log) :
                     /\ api_log[i].error = "Error saving prediction"
                     /\ Mirrors(api_log[i].row, k, p)
                     /\ api_log[i].row.model_version = p.model_version

(***************************************************************************)
(* The feature computation (SpecFeatures).                                 *)
(***************************************************************************)

\* C15: two calls of _compute_features for the same customer at the same
\* time over the same snapshot return the same result, and a call changes
\* neither the Customer rows, nor the event tables, nor the cache.
C15_Deterministic ==
    [][/\ customers' = customers
       /\ tables' = tables
       /\ store' = store
       /\ cache' = cache
       /\ (/\ Len(computed') = 2
           /\ computed'[1].customer_id = computed'[2].customer_id
           /\ computed'[1].at = computed'[2].at)
             => computed'[1].result = computed'[2].result]_vars

\* 0 <= x <= 1 for a quotient with a positive denominator.
InUnitInterval(q) == 0 <= q.num /\ q.num <= q.den

\* The vectors computed for a known customer.
Vectors ==
    {i \in 1..Len(computed) :
        /\ customers[computed[i].customer_id].exists
        /\ ~computed[i].result.raised}

\* C16: engagement_score and risk_score of every computed vector lie in
\* [0, 1], whatever the values of the persisted rows.
C16_ScoresInUnitInterval ==
    \A i \in Vectors :
        /\ InUnitInterval(Val(computed[i].result.features.engagement_score))
        /\ InUnitInterval(Val(computed[i].result.features.risk_score))

FeatureNames ==
    {"customer_segment", "age_range", "household_size", "estimated_income",
     "tenure_days", "monthly_recurring_revenue", "lifetime_value",
     "auto_renew", "days_until_contract_end",
     "service_calls_30d", "avg_sentiment_30d", "unresolved_calls_30d",
     "avg_call_duration_30d", "days_since_last_call",
     "stb_errors_30d", "avg_network_quality_30d", "total_buffer_events_30d",
     "total_viewing_hours_30d",
     "web_sessions_30d", "total_engagement_minutes_30d",
     "days_since_last_web_activity",
     "payment_failures_90d", "disputes_90d", "days_overdue",
     "account_balance",
     "engagement_score", "risk_score"}

\* C17: every vector computed for a known customer has the same names and
\* no null value, and carries the documented defaults for an empty
\* service, telemetry, web or billing window and for a missing contract
\* end date.
C17_DenseWithDefaults ==
    \A i \in Vectors :
        LET c == computed[i].customer_id
            t == computed[i].at
            f == computed[i].result.features
        IN /\ DOMAIN f = FeatureNames
           /\ \A k \in FeatureNames : f[k] # Null
           /\ Window(tables.service, c, t, 30) = <<>> =>
                 /\ f.service_calls_30d = Some(0)
                 /\ f.avg_sentiment_30d = Some(Quot(0, 1))
                 /\ f.days_since_last_call = Some(999)
           /\ Window(tables.stb, c, t, 30) = <<>> =>
                 /\ f.stb_errors_30d = Some(0)
                 /\ f.avg_network_quality_30d = Some(Quot(100, 1))
           /\ Window(tables.web, c, t, 30) = <<>> =>
                 /\ f.web_sessions_30d = Some(0)
                 /\ f.days_since_last_web_activity = Some(999)
           /\ Window(tables.billing, c, t, 90) = <<>> =>
                 /\ f.payment_failures_90d = Some(0)
                 /\ f.disputes_90d = Some(0)
                 /\ f.days_overdue = Some(0)
                 /\ f.account_balance = Some(0)
           /\ customers[c].contract_end_date = Null =>
                 f.days_until_contract_end = Some(999)

\* A vector was computed for a customer without any event whose age range,
\* household size and contract end date are NULL.
C17_Witness ==
    /\ Vectors # {}
    /\ tables = EmptyTables
    /\ customers["c1"].age_range = Null
    /\ customers["c1"].household_size = Null
    /\ customers["c1"].contract_end_date = Null

(***************************************************************************)
(* Events and the feature computation (SpecEvents).                        *)
(***************************************************************************)

\* service_calls_30d of c1, computed now.
ServiceCalls == Val(compute_service_features("c1", now).service_calls_30d)

\* The delivery handled in this step.
LastDelivery == delivered'[Len(delivered')]

\* The step handles, with the database up, a delivery of an event of the
\* last 30 days that an earlier delivery has committed.
Redelivery ==
    /\ Len(delivered') = Len(delivered) + 1
    /\ LastDelivery.outcome # "OperationalError"
    /\ LastDelivery.event.timestamp >= now - 30
    /\ \E i \in 1..Len(delivered) :
          /\ delivered[i].event = LastDelivery.event
          /\ delivered[i].outcome = "ok"

\* C22 as claimed: the second delivery of a customer-service event is
\* counted again: service_calls_30d is one higher after it.
C22_RedeliveryCounted ==
    [][Redelivery => ServiceCalls' = ServiceCalls + 1]_vars

\* C22 as amended: the second delivery of an event without interaction_id
\* is counted again; the second delivery of an event with an interaction_id
\* fails on the primary key and leaves service_calls_30d as it was.
C22_RedeliveryCountedWithoutKey ==
    [][Redelivery =>
          IF LastDelivery.event.interaction_id = Null
          THEN /\ LastDelivery.outcome = "ok"
               /\ ServiceCalls' = ServiceCalls + 1
          ELSE /\ LastDelivery.outcome = "IntegrityError"
               /\ ServiceCalls' = ServiceCalls]_vars

\* An event with an interaction_id was committed, delivered again and
\* refused, and stands once in the table.
C22_Witness ==
    /\ Len(delivered) = 2
    /\ delivered[1].event = delivered[2].event
    /\ delivered[1].event.interaction_id # Null
    /\ delivered[1].event.timestamp >= now - 30
    /\ delivered[1].outcome = "ok"
    /\ delivered[2].outcome = "IntegrityError"
    /\ Len(tables.service) = 1

\* The two scores of a vector, from the base features of the same vector.
ScoresAgree(f) ==
    /\ f.engagement_score =
          Some(Quot(Cap(Val(f.total_viewing_hours_30d).num, 360000)
                    + Cap(12000 * Val(f.web_sessions_30d), 360000),
                    720000))
    /\ f.risk_score =
          Some(Quot(Cap(18 * Val(f.unresolved_calls_30d), 90)
                    + Cap(40 * Val(f.payment_failures_90d), 120)
                    + Cap(3 * Val(f.days_overdue), 90),
                    300))

\* C27: in every vector returned, engagement_score and risk_score are the
\* weighted sums of the vector's own base features, also when an event of
\* the customer is committed while the vector is computed.
C27_ScoresAgreeWithBase ==
    \A i \in 1..Len(computed) :
        (~computed[i].result.raised
            /\ DOMAIN computed[i].result.features # {})
           => ScoresAgree(computed[i].result.features)

\* C29: the service aggregates of a vector count the events of the
\* customer between 30 days before the evaluation time and the evaluation
\* time, and days_since_last_call and days_since_last_web_activity are
\* not negative.
C29_WindowEndsAtEvaluation ==
    [][(computing.pc = "idle" /\ computing'.pc = "behavioral") =>
          LET t == computing'.at
              Inside(e) == /\ e.customer_id = computing'.customer_id
                           /\ e.timestamp >= t - 30
                           /\ e.timestamp <= t
          IN /\ Val(computing'.base.service_calls_30d)
                   = Len(SelectSeq(tables.service, Inside))
             /\ Val(computing'.base.days_since_last_call) >= 0
             /\ Val(computing'.base.days_since_last_web_activity) >= 0]_vars

(***************************************************************************)
(* The consumer loop (SpecConsume).                                        *)
(***************************************************************************)

\* C30: a failure on one message does not stop the consumer: the callback
\* has been called, in order, with every message before the position of
\* the consumer; a message that failed is behind that position; and the
\* consumer is closed only by the end of the stream or an error of the bus.
C30_FailureNeverStopsConsumer ==
    /\ bus.handed = [i \in 1..(bus.next - 1) |-> i]
    /\ \A i \in 1..Len(bus.logged) : bus.logged[i] < bus.next
    /\ bus.closed => bus.cause \in {"StopIteration", "KafkaError"}

(***************************************************************************)
(* Action execution (SpecExec).                                            *)
(***************************************************************************)

\* The callers that have called execute_action on the action and its owner.
CallsOn(a) ==
    {p \in Callers : /\ callers[p].action_id = a
                     /\ callers[p].customer_id = actions[a].customer_id}

\* C1: when two or more calls of execute_action on an action that was
\* pending have all returned, exactly one of them returned True and every
\* other one returned False, in every interleaving.
C1_ExactlyOneSuccess ==
    \A a \in pending0 :
        (/\ Cardinality(CallsOn(a)) >= 2
         /\ \A p \in CallsOn(a) : callers[p].pc = "done")
        => Cardinality({p \in CallsOn(a) : callers[p].result = "True"}) = 1

\* A call that began after a call on the same action had returned True
\* has returned False.
LateCallsFail ==
    \A p \in Callers :
        (callers[p].pc = "done" /\ callers[p].late)
            => callers[p].result = "False"

\* A call that finds its action in a status other than pending returns
\* False at once and changes no row.
NonPendingUntouched ==
    \A p \in Callers :
        (/\ callers[p].pc = "idle"
         /\ callers'[p].pc # "idle"
         /\ LET found == FindAction(callers'[p].action_id,
                                    callers'[p].customer_id)
            IN found.exists /\ found.status # "pending")
        => (/\ callers'[p].pc = "done"
            /\ callers'[p].result = "False"
            /\ actions' = actions)

\* No step moves an action out of executed.
ExecutedStays ==
    \A a \in ActionIds :
        (actions[a].exists /\ actions[a].status = "executed")
            => (actions'[a].exists /\ actions'[a].status = "executed")

\* C6: a call made after a call on the same action returned True returns
\* False; a call on an action that is not pending returns False and
\* changes nothing; no step moves an action out of executed.
C6_Idempotent ==
    /\ []LateCallsFail
    /\ [][NonPendingUntouched /\ ExecutedStays]_vars

\* After one call returned True, a later call on the same action returned
\* False and the row is as the first call set it.
C6_Witness ==
    \E p, q \in Callers :
        /\ callers[p].pc = "done" /\ callers[p].result = "True"
        /\ callers[q].pc = "done" /\ callers[q].late
        /\ callers[q].result = "False"
        /\ callers[q].action_id = callers[p].action_id
        /\ actions[callers[p].action_id].status = "executed"

\* C23: a call on a pair for which no action exists changes no action,
\* and what it returns differs from what a call on an action that is not
\* pending returns.
C23_NotFoundDistinct ==
    [][/\ \A p \in Callers :
             (callers[p].pc = "idle"
                 /\ callers'[p].log = "error: Action not found")
                => actions' = actions
       /\ \A p, q \in Callers :
             (/\ callers'[p].log = "error: Action not found"
              /\ callers'[q].log = "warning: Action already executed")
                => callers'[p].result # callers'[q].result]_vars

(***************************************************************************)
(* Risk classification (SpecRisk).                                         *)
(***************************************************************************)

OrderedThresholds ==
    thresholds.critical > thresholds.high /\ thresholds.high > thresholds.medium

\* C7: with t_critical > t_high > t_medium, predict gives critical iff
\* p >= t_critical, high iff t_high <= p < t_critical, medium iff
\* t_medium <= p < t_high, and low iff p < t_medium.
C7_RiskBands ==
    OrderedThresholds =>
        \A i \in 1..Len(predictions) :
            LET p == predictions[i].churn_probability
                l == predictions[i].risk_level
            IN /\ (l = "critical") <=> (p >= thresholds.critical)
               /\ (l = "high") <=>
                      (thresholds.high <= p /\ p < thresholds.critical)
               /\ (l = "medium") <=>
                      (thresholds.medium <= p /\ p < thresholds.high)
               /\ (l = "low") <=> (p < thresholds.medium)

\* A probability exactly on the high threshold was classified, as high.
C7_Witness ==
    /\ OrderedThresholds
    /\ Len(predictions) >= 1
    /\ predictions[1].churn_probability = thresholds.high
    /\ predictions[1].risk_level = "high"

\* C8: for any thresholds, of two classified probabilities the larger one
\* never gets the lower risk level.
C8_Monotonic ==
    \A i, j \in 1..Len(predictions) :
        predictions[i].churn_probability <= predictions[j].churn_probability
            => Rank(predictions[i].risk_level) <= Rank(predictions[j].risk_level)

\* Two different probabilities were classified, into different levels.
C8_Witness ==
    /\ Len(predictions) = 2
    /\ predictions[2].churn_probability < predictions[1].churn_probability
    /\ Rank(predictions[2].risk_level) < Rank(predictions[1].risk_level)

(***************************************************************************)
(* Recommendations (SpecRec).                                              *)
(***************************************************************************)

\* C9: the list recommend_actions returns has at most 3 actions and is
\* strictly sorted by predicted_impact, highest first.
C9_ShapeAndOrder ==
    recommended.called =>
        /\ Len(recommended.result) <= 3
        /\ \A i \in 1..(Len(recommended.result) - 1) :
               recommended.result[i].predicted_impact
                   > recommended.result[i + 1].predicted_impact

\* A call returned three actions.
C9_Witness == recommended.called /\ Len(recommended.result) = 3

\* What the rule table of a level lists, highest impact first, as
\* <<action_type, predicted_impact>>; mrr says whether the discount applies.
RuleTable(level, customer, mrr) ==
    LET discount(impact) == IF mrr THEN <<(<<"discount", impact>>)>> ELSE <<>>
    IN CASE level = "critical" ->
              discount(30) \o <<(<<"service_call", 25>>)>>
              \o (IF customer.lifetime_value # Null
                      /\ Val(customer.lifetime_value) > 1000
                   THEN <<(<<"loyalty_reward", 15>>)>> ELSE <<>>)
         [] level = "high" ->
              discount(25) \o <<(<<"service_call", 20>>)>>
              \o (IF customer.customer_segment
                        \in {"residential", "small_business"}
                   THEN <<(<<"upgrade", 18>>)>> ELSE <<>>)
         [] level = "medium" ->
              discount(15) \o <<(<<"custom_offer", 10>>)>>

Shape(result) ==
    [i \in 1..Len(result) |->
        <<result[i].action_type, result[i].predicted_impact>>]

\* The details the table gives: the critical service call escalates, the
\* medium offer is the personalized email.
TableDetails(level, result) ==
    \A i \in 1..Len(result) :
        /\ (level = "critical" /\ result[i].action_type = "service_call")
              => result[i].offer_details.escalation
        /\ (level = "medium" /\ result[i].action_type = "custom_offer")
              => (result[i].offer_details.channel = "email"
                  /\ result[i].offer_details.personalized)

TableLevels == {"critical", "high", "medium"}

\* C10 as claimed: for a known customer at critical, high or medium the
\* result is the rule table of the level, the discount being there exactly
\* when monthly_recurring_revenue is present (not NULL).
C10_TableMrrPresent ==
    (recommended.called /\ recommended.risk_level \in TableLevels
        /\ customers[recommended.customer_id].exists) =>
        LET customer == customers[recommended.customer_id]
        IN /\ Shape(recommended.result) =
                 RuleTable(recommended.risk_level, customer,
                           customer.monthly_recurring_revenue # Null)
           /\ TableDetails(recommended.risk_level, recommended.result)

\* C10 as amended: the same, the discount being there exactly when
\* monthly_recurring_revenue is present and not zero.
C10_TableMrrNonZero ==
    (recommended.called /\ recommended.risk_level \in TableLevels
        /\ customers[recommended.customer_id].exists) =>
        LET customer == customers[recommended.customer_id]
        IN /\ Shape(recommended.result) =
                 RuleTable(recommended.risk_level, customer,
                           customer.monthly_recurring_revenue # Null
                           /\ Val(customer.monthly_recurring_revenue) # 0)
           /\ TableDetails(recommended.risk_level, recommended.result)

\* The example: MRR 100, LTV 1500, residential, 0.92 at critical gave
\* discount, service_call, loyalty_reward in that order.
C10_Witness ==
    /\ recommended.called
    /\ recommended.customer_id = "c1"
    /\ recommended.risk_level = "critical"
    /\ recommended.churn_probability = 92
    /\ customers["c1"].monthly_recurring_revenue = Some(100)
    /\ customers["c1"].lifetime_value = Some(1500)
    /\ customers["c1"].customer_segment = "residential"
    /\ Shape(recommended.result) =
         <<(<<"discount", 30>>), (<<"service_call", 25>>),
           (<<"loyalty_reward", 15>>)>>

\* C24: every action that recommend_actions returns has a row of its own
\* in retention_actions, of the customer and with status 'pending', so
\* that execute_action can find it.
C24_RecommendationsRecorded ==
    (recommended.called /\ recommended.result # <<>>) =>
        \E a \in DOMAIN actions :
            /\ actions[a].exists
            /\ actions[a].customer_id = recommended.customer_id
            /\ actions[a].status = "pending"

\* C25: for a known customer at level low the result is the engagement
\* email alone, with impact .05, whatever the MRR, the LTV, the segment
\* and the probability.
C25_LowIsEngagementEmail ==
    (/\ recommended.called
     /\ recommended.risk_level = "low"
     /\ customers[recommended.customer_id].exists) =>
        /\ Len(recommended.result) = 1
        /\ recommended.result[1].action_type = "custom_offer"
        /\ recommended.result[1].predicted_impact = 5
        /\ recommended.result[1].offer_details.channel = "email"
        /\ recommended.result[1].offer_details.type = "engagement"

\* A customer with MRR and an LTV above 1000 got the low recommendation at
\* probability .92.
C25_Witness ==
    /\ recommended.called
    /\ recommended.risk_level = "low"
    /\ recommended.churn_probability = 92
    /\ recommended.customer_id = "c1"
    /\ customers["c1"].monthly_recurring_revenue = Some(100)
    /\ customers["c1"].lifetime_value = Some(1500)
    /\ Len(recommended.result) = 1

\* The cap in percent, the factor and the months of the discount of a level.
DiscountTerms(level) ==
    CASE level = "critical" -> [cap |-> 25, k |-> 30, months |-> 6]
      [] level = "high" -> [cap |-> 15, k |-> 20, months |-> 3]
      [] level = "medium" -> [cap |-> 10, k |-> 15, months |-> 2]

\* C26: a recommended discount is at level critical, high or medium; its
\* discount_percent is min(cap, probability * k) with the terms of the
\* level, so at most the cap; it lasts the months of the level and its
\* estimated cost is MRR * discount_percent / 100 * months.
C26_DiscountFormula ==
    recommended.called =>
        \A i \in 1..Len(recommended.result) :
            LET a == recommended.result[i]
                terms == DiscountTerms(recommended.risk_level)
                mrr == Val(customers[recommended.customer_id]
                              .monthly_recurring_revenue)
                pct == a.offer_details.discount_percent
            IN a.action_type = "discount" =>
                  /\ recommended.risk_level \in TableLevels
                  /\ pct = Min(terms.cap * 100,
                               recommended.churn_probability * terms.k)
                  /\ pct <= terms.cap * 100
                  /\ a.offer_details.duration_months = terms.months
                  /\ a.estimated_cost = mrr * pct * terms.months

\* A discount at critical for probability .92, where .92 * 30 is above the
\* cap of 25 percent.
C26_Witness ==
    /\ recommended.called
    /\ recommended.risk_level = "critical"
    /\ recommended.churn_probability = 92
    /\ \E i \in 1..Len(recommended.result) :
          /\ recommended.result[i].action_type = "discount"
          /\ recommended.result[i].offer_details.discount_percent = 2500

====
